---- MODULE Spec2Model ----
(***************************************************************************)
(* Model of the command-line chat client of src/chat.py: the session       *)
(* continuity protocol between the history directory (transcripts and the  *)
(* active-chat pointer), the input file, the rendered output file and the  *)
(* remote completion API (batched or streamed).                            *)
(*                                                                         *)
(* Python values are modelled structurally: a str is a sequence of         *)
(* one-character strings, a dict is a function from its keys, a list is a  *)
(* sequence, None is the value None below.  A file holding JSON is         *)
(* modelled by the value json.load returns for it.                         *)
(***************************************************************************)
EXTENDS Integers, Sequences, FiniteSets, TLC

\* ------------------------------------------------------------------ bounds
\* invocations of the program in one behaviour when STREAMING is off
MaxInvocations == 3
\* invocations of the program in one behaviour when STREAMING is on
MaxStreamInvocations == 1
\* lines of one streamed response
MaxLines == 2

\* --------------------------------------------------------- Python values
None == <<"None">>
EmptyDict == [k \in {} |-> 0]

\* Python truthiness of a str-or-None value: None and "" are falsy
Truthy(s) == s # None /\ s # <<>>

\* config.py
MODEL == "codestral-latest"
\* the name of ACTIVE_CHAT_FILE inside HISTORY_DIR
ACTIVE_CHAT_FILE == <<"active_chat.json">>

\* ------------------------------------------------------------ input sets
\* the positional prompt: absent (None) or "h"
PromptArgs == {None, <<"h">>}
\* --load: absent, the pointer file's own name, a name never written, or
\* the name of any file of the history directory
MissingName == <<"n", "o">>
\* contents the user may give input.txt
InputTexts == {<<" ", "\n">>, <<" ", "i", "\n">>}

U1 == [prompt_tokens |-> 5, completion_tokens |-> 3, total_tokens |-> 8]
U2 == [prompt_tokens |-> 1, completion_tokens |-> 1, total_tokens |-> 2]
Usages == {U1, U2}

\* a batched response body: response.json()
Reply(c, u) == [choices |-> <<[message |-> [content |-> c]]>>, usage |-> u]
Replies == {Reply(<<"x">>, U1), Reply(<<"x", "y">>, U2)}

\* the lines response.iter_lines() yields
Line(k, chunk) == [kind |-> k, chunk |-> chunk]
Fragment(c) == Line("chunk", [choices |-> <<[delta |-> [content |-> c]]>>])
UsageChunk(u) == Line("chunk", [choices |-> <<>>, usage |-> u])
FragmentWithUsage(c, u) ==
    Line("chunk", [choices |-> <<[delta |-> [content |-> c]]>>, usage |-> u])
\* "blank": the empty line between two events; "done": data: [DONE];
\* "bad": data that is not JSON
Lines ==
    {Line(k, EmptyDict) : k \in {"blank", "done", "bad"}}
    \cup {Fragment(<<"x">>), Fragment(<<"y">>)}
    \cup {UsageChunk(u) : u \in Usages \cup {EmptyDict}}
    \cup {FragmentWithUsage(<<"y">>, U1)}
SeqsUpTo(S, n) == UNION {[1..k -> S] : k \in 0..n}
Streams == SeqsUpTo(Lines, MaxLines)

\* ------------------------------------------------------------- the state
VARIABLES
    history,      \* HISTORY_DIR: file name -> the JSON value the file holds
    input,        \* INPUT_FILE: [exists, text]
    output,       \* OUTPUT_FILE: [exists, doc]
    STREAMING,    \* config.STREAMING
    clock,        \* datetime.now(): the next value it returns; every
                  \* reading is later than the one before
    pc,           \* position of the running invocation of chat(), or "idle"
    args,         \* prompt, new_chat, load_file of the last invocation
    prompt,       \* local of chat()
    chat_data,    \* local of chat()
    filename,     \* local of chat()
    response,     \* local of chat()
    result,       \* how the last invocation ended: "ok" or the exception
    posts,        \* number of requests.post calls of this invocation
    payload,      \* payload["messages"] of the request of this invocation
    lines,        \* the lines the server answers a streamed request with
    base,         \* chat_data as resolved, before the user message
    pre,          \* the files, clock and chain at the invocation's start
    invocations,  \* number of invocations started
    turns,        \* length of the chain of successful turns on one session
    usageSum,     \* sum of the usage records the API returned in the chain
    loaded        \* the file a load made active, until a turn succeeds

vars == <<history, input, output, STREAMING, clock, pc, args, prompt,
          chat_data, filename, response, result, posts, payload, lines,
          base, pre, invocations, turns, usageSum, loaded>>

ZeroUsage == [prompt_tokens |-> 0, total_tokens |-> 0, completion_tokens |-> 0]

\* ------------------------------------------------------- pure functions
Digit(n) == <<"0", "1", "2", "3", "4", "5", "6", "7", "8", "9">>[(n % 10) + 1]

\* datetime.isoformat() of the clock value t: t \div 2 seconds and
\* t % 2 half-seconds; the fraction is omitted when it is zero
isoformat(t) ==
    <<Digit(t \div 2), ":", "0">> \o (IF t % 2 = 0 THEN <<>> ELSE <<".", "5">>)

\* str.replace for a one-character pattern
RECURSIVE replace(_, _, _)
replace(s, old, new) ==
    IF s = <<>> THEN <<>>
    ELSE (IF Head(s) = old THEN new ELSE <<Head(s)>>)
         \o replace(Tail(s), old, new)

Whitespace == {" ", "\n"}
RECURSIVE lstrip(_)
lstrip(s) == IF s # <<>> /\ Head(s) \in Whitespace THEN lstrip(Tail(s)) ELSE s
RECURSIVE rstrip(_)
rstrip(s) ==
    IF s # <<>> /\ s[Len(s)] \in Whitespace
    THEN rstrip(SubSeq(s, 1, Len(s) - 1))
    ELSE s
strip(s) == rstrip(lstrip(s))

create_chat_history(now) ==
    [model |-> MODEL,
     messages |-> <<>>,
     usage |-> ZeroUsage,
     created_at |-> isoformat(now),
     last_updated_at |-> isoformat(now)]

\* only the colons are removed from the timestamp
C12_GetChatFilenameKeepsDot(created_at) ==
    replace(created_at, ":", <<>>) \o <<".json">>
get_chat_filename(created_at) ==
    replace(replace(created_at, ":", <<>>), ".", <<"-">>) \o <<".json">>

\* open(path, 'w') + json.dump: the file holds the value afterwards
WriteFile(dir, name, value) ==
    [f \in DOMAIN dir \cup {name} |-> IF f = name THEN value ELSE dir[f]]

save_chat_history(dir, data, name) ==
    LET f == IF name = None THEN get_chat_filename(data["created_at"]) ELSE name
    IN [filename |-> f, history |-> WriteFile(dir, f, data)]

\* load_chat_history raises FileNotFoundError when this is false
FileExists(dir, name) == name \in DOMAIN dir
load_chat_history(dir, name) == dir[name]

get_active_chat(dir) ==
    IF ~FileExists(dir, ACTIVE_CHAT_FILE) THEN None
    ELSE IF "active_chat" \in DOMAIN dir[ACTIVE_CHAT_FILE]
         THEN dir[ACTIVE_CHAT_FILE]["active_chat"]
         ELSE None

\* the pointer file is not written
C3_SetActiveChatSkipped(dir, name) == dir

set_active_chat(dir, name) ==
    WriteFile(dir, ACTIVE_CHAT_FILE, [active_chat |-> name])

\* one iteration of the loop of _handle_stream on a data chunk
ChunkContent(chunk) ==
    IF "choices" \in DOMAIN chunk /\ chunk["choices"] # <<>>
    THEN LET choice == chunk["choices"][1]
             delta == IF "delta" \in DOMAIN choice THEN choice["delta"] ELSE EmptyDict
         IN IF "content" \in DOMAIN delta THEN delta["content"] ELSE <<>>
    ELSE <<>>
\* a later usage record is added to the earlier one
C19_ChunkUsageSums(chunk, usage) ==
    IF "usage" \in DOMAIN chunk /\ DOMAIN chunk["usage"] # {}
    THEN [k \in DOMAIN usage |-> usage[k] + chunk["usage"][k]]
    ELSE usage
ChunkUsage(chunk, usage) ==
    IF "usage" \in DOMAIN chunk /\ DOMAIN chunk["usage"] # {}
    THEN chunk["usage"]
    ELSE usage

\* full_content = content instead of full_content += content
RECURSIVE C6_StreamLoopOverwrites(_, _, _)
C6_StreamLoopOverwrites(ls, full_content, usage) ==
    IF ls = <<>>
    THEN [choices |-> <<[message |-> [content |-> full_content]]>>, usage |-> usage]
    ELSE LET line == Head(ls) IN
         CASE line.kind = "done" ->
                [choices |-> <<[message |-> [content |-> full_content]]>>,
                 usage |-> usage]
           [] line.kind = "chunk" ->
                C6_StreamLoopOverwrites(
                    Tail(ls),
                    IF ChunkContent(line.chunk) # <<>>
                    THEN ChunkContent(line.chunk) ELSE full_content,
                    ChunkUsage(line.chunk, usage))
           [] OTHER -> C6_StreamLoopOverwrites(Tail(ls), full_content, usage)

\* the loop does not break at the [DONE] line
RECURSIVE C15_StreamLoopReadsPastSentinel(_, _, _)
C15_StreamLoopReadsPastSentinel(ls, full_content, usage) ==
    IF ls = <<>>
    THEN [choices |-> <<[message |-> [content |-> full_content]]>>, usage |-> usage]
    ELSE LET line == Head(ls) IN
         CASE line.kind = "chunk" ->
                C15_StreamLoopReadsPastSentinel(
                    Tail(ls),
                    full_content \o ChunkContent(line.chunk),
                    ChunkUsage(line.chunk, usage))
           [] OTHER -> C15_StreamLoopReadsPastSentinel(Tail(ls), full_content, usage)
\* a stream that ends without the [DONE] line yields no content
RECURSIVE C20_StreamLoopDropsUnterminated(_, _, _)
C20_StreamLoopDropsUnterminated(ls, full_content, usage) ==
    IF ls = <<>>
    THEN [choices |-> <<[message |-> [content |-> <<>>]]>>, usage |-> ZeroUsage]
    ELSE LET line == Head(ls) IN
         CASE line.kind = "done" ->
                [choices |-> <<[message |-> [content |-> full_content]]>>,
                 usage |-> usage]
           [] line.kind = "chunk" ->
                C20_StreamLoopDropsUnterminated(
                    Tail(ls),
                    full_content \o ChunkContent(line.chunk),
                    ChunkUsage(line.chunk, usage))
           [] OTHER -> C20_StreamLoopDropsUnterminated(Tail(ls), full_content, usage)
RECURSIVE stream_loop(_, _, _)
stream_loop(ls, full_content, usage) ==
    IF ls = <<>>
    THEN [choices |-> <<[message |-> [content |-> full_content]]>>, usage |-> usage]
    ELSE LET line == Head(ls) IN
         CASE line.kind = "done" ->
                [choices |-> <<[message |-> [content |-> full_content]]>>,
                 usage |-> usage]
           [] line.kind = "chunk" ->
                stream_loop(Tail(ls),
                            full_content \o ChunkContent(line.chunk),
                            ChunkUsage(line.chunk, usage))
           [] OTHER -> stream_loop(Tail(ls), full_content, usage)

handle_stream(ls) == stream_loop(ls, <<>>, ZeroUsage)

\* str.capitalize of a role
capitalize(role) ==
    CASE role = "user" -> "User"
      [] role = "assistant" -> "Assistant"
      [] OTHER -> role

Block(kind, text, nums) == [kind |-> kind, text |-> text, nums |-> nums]
TranscriptKeys == {"model", "messages", "usage", "created_at", "last_updated_at"}

\* the text update_output_md writes for a transcript
Rendering(data) ==
    <<Block("# Chat History", <<>>, <<>>),
      Block("**Created:**", data["created_at"], <<>>),
      Block("**Last Updated:**", data["last_updated_at"], <<>>),
      Block("**Model:**", <<data["model"]>>, <<>>)>>
    \o [i \in 1..Len(data["messages"]) |->
          Block(capitalize(data["messages"][i]["role"]),
                data["messages"][i]["content"], <<>>)]
    \o <<Block("**Usage Statistics:**", <<>>,
               <<data["usage"]["prompt_tokens"],
                 data["usage"]["completion_tokens"],
                 data["usage"]["total_tokens"]>>)>>

\* update_output_md: the file is truncated on open; a dict without
\* created_at raises KeyError after the title line was written
update_output_md(data) ==
    IF TranscriptKeys \subseteq DOMAIN data
    THEN [raised |-> FALSE, file |-> [exists |-> TRUE, doc |-> Rendering(data)]]
    ELSE [raised |-> TRUE,
          file |-> [exists |-> TRUE, doc |-> <<Block("# Chat History", <<>>, <<>>)>>]]

\* the counters are overwritten by the last exchange instead of accumulated
C1_AddUsageOverwrites(a, b) ==
    [prompt_tokens |-> b["prompt_tokens"],
     total_tokens |-> b["total_tokens"],
     completion_tokens |-> b["completion_tokens"]]

AddUsage(a, b) ==
    [prompt_tokens |-> a["prompt_tokens"] + b["prompt_tokens"],
     total_tokens |-> a["total_tokens"] + b["total_tokens"],
     completion_tokens |-> a["completion_tokens"] + b["completion_tokens"]]

Message(role, content) == [role |-> role, content |-> content]

\* the assistant message is not appended
C18_ApplyResponseDropsMessage(data, resp, now) ==
    [data EXCEPT
       !["usage"] = AddUsage(@, resp["usage"]),
       !["last_updated_at"] = isoformat(now)]

\* lines 228-244 of chat(): the assistant message, the usage, the timestamp
ApplyResponse(data, resp, now) ==
    [data EXCEPT
       !["messages"] = Append(@, Message("assistant",
                                        resp["choices"][1]["message"]["content"])),
       !["usage"] = AddUsage(@, resp["usage"]),
       !["last_updated_at"] = isoformat(now)]

\* ------------------------------------------------------------------ Init
\* The state after the module is loaded on a fresh checkout: HISTORY_DIR
\* exists and is empty, input.txt and output.md are absent.
NoFile == [exists |-> FALSE, doc |-> <<>>]
NoInput == [exists |-> FALSE, text |-> <<>>]
\* no file has been loaded since the last successful turn
NoLoad == [file |-> None, before |-> None]
NoArgs == [prompt |-> None, new_chat |-> FALSE, load_file |-> None]

\* the field-by-field sum of two usage records the API returned
SumUsage(a, b) ==
    [k \in {"prompt_tokens", "completion_tokens", "total_tokens"} |-> a[k] + b[k]]

NoSnapshot ==
    [history |-> EmptyDict, output |-> NoFile, clock |-> 0, turns |-> 0,
     usageSum |-> ZeroUsage, loaded |-> NoLoad, fresh |-> FALSE]

Snapshot(fresh) ==
    [history |-> history, output |-> output, clock |-> clock,
     turns |-> turns, usageSum |-> usageSum, loaded |-> loaded,
     fresh |-> fresh]

Init ==
    /\ history = EmptyDict
    /\ input = NoInput
    /\ output = NoFile
    /\ STREAMING \in BOOLEAN
    /\ lines \in (IF STREAMING THEN Streams ELSE {<<>>})
    /\ clock = 0
    /\ pc = "idle"
    /\ args = NoArgs
    /\ prompt = None
    /\ chat_data = EmptyDict
    /\ filename = None
    /\ response = EmptyDict
    /\ result = "ok"
    /\ posts = 0
    /\ payload = <<>>
    /\ base = EmptyDict
    /\ pre = NoSnapshot
    /\ invocations = 0
    /\ turns = 0
    /\ usageSum = ZeroUsage
    /\ loaded = NoLoad

\* --------------------------------------------------------------- actions
Budget == IF STREAMING THEN MaxStreamInvocations ELSE MaxInvocations

LoadNames == {None, ACTIVE_CHAT_FILE, MissingName} \cup DOMAIN history

\* chat(), lines 180-208: which transcript to operate on; first match wins
\* among load_file, new_chat and the active pointer.  raised names the
\* exception that leaves chat(), "" when there is none.
Resolved(branch, raised, fresh, data, name) ==
    [branch |-> branch, raised |-> raised, fresh |-> fresh, data |-> data,
     filename |-> name]

\* new_chat is ignored: the active chat is continued whenever it exists
C2_ResolveIgnoresNew(dir, new_chat, load_file, now) ==
    IF Truthy(load_file)
    THEN IF FileExists(dir, load_file)
         THEN Resolved("load", "", FALSE, load_chat_history(dir, load_file), load_file)
         ELSE Resolved("load", "FileNotFoundError", FALSE, EmptyDict, None)
    ELSE LET active_filename == get_active_chat(dir) IN
         IF Truthy(active_filename) /\ FileExists(dir, active_filename)
         THEN Resolved("turn", "", FALSE,
                       load_chat_history(dir, active_filename), active_filename)
         ELSE Resolved("turn", "", TRUE, create_chat_history(now), None)

\* the FileNotFoundError of a stale active pointer is not caught
C5_ResolveRaisesOnStale(dir, new_chat, load_file, now) ==
    IF Truthy(load_file)
    THEN IF FileExists(dir, load_file)
         THEN Resolved("load", "", FALSE, load_chat_history(dir, load_file), load_file)
         ELSE Resolved("load", "FileNotFoundError", FALSE, EmptyDict, None)
    ELSE IF new_chat
    THEN Resolved("turn", "", TRUE, create_chat_history(now), None)
    ELSE LET active_filename == get_active_chat(dir) IN
         IF Truthy(active_filename)
         THEN IF FileExists(dir, active_filename)
              THEN Resolved("turn", "", FALSE,
                            load_chat_history(dir, active_filename), active_filename)
              ELSE Resolved("turn", "FileNotFoundError", FALSE, EmptyDict, None)
         ELSE Resolved("turn", "", TRUE, create_chat_history(now), None)

\* new_chat is tested before load_file
C9_ResolveNewFirst(dir, new_chat, load_file, now) ==
    IF new_chat
    THEN Resolved("turn", "", TRUE, create_chat_history(now), None)
    ELSE IF Truthy(load_file)
    THEN IF FileExists(dir, load_file)
         THEN Resolved("load", "", FALSE, load_chat_history(dir, load_file), load_file)
         ELSE Resolved("load", "FileNotFoundError", FALSE, EmptyDict, None)
    ELSE LET active_filename == get_active_chat(dir) IN
         IF Truthy(active_filename) /\ FileExists(dir, active_filename)
         THEN Resolved("turn", "", FALSE,
                       load_chat_history(dir, active_filename), active_filename)
         ELSE Resolved("turn", "", TRUE, create_chat_history(now), None)

\* a new session keeps the file name of the active one
C14_ResolveNewKeepsFilename(dir, new_chat, load_file, now) ==
    IF Truthy(load_file)
    THEN IF FileExists(dir, load_file)
         THEN Resolved("load", "", FALSE, load_chat_history(dir, load_file), load_file)
         ELSE Resolved("load", "FileNotFoundError", FALSE, EmptyDict, None)
    ELSE IF new_chat
    THEN Resolved("turn", "", TRUE, create_chat_history(now), get_active_chat(dir))
    ELSE LET active_filename == get_active_chat(dir) IN
         IF Truthy(active_filename) /\ FileExists(dir, active_filename)
         THEN Resolved("turn", "", FALSE,
                       load_chat_history(dir, active_filename), active_filename)
         ELSE Resolved("turn", "", TRUE, create_chat_history(now), None)
Resolve(dir, new_chat, load_file, now) ==
    IF Truthy(load_file)
    THEN IF FileExists(dir, load_file)
         THEN Resolved("load", "", FALSE, load_chat_history(dir, load_file), load_file)
         ELSE Resolved("load", "FileNotFoundError", FALSE, EmptyDict, None)
    ELSE IF new_chat
    THEN Resolved("turn", "", TRUE, create_chat_history(now), None)
    ELSE LET active_filename == get_active_chat(dir) IN
         IF Truthy(active_filename) /\ FileExists(dir, active_filename)
         THEN Resolved("turn", "", FALSE,
                       load_chat_history(dir, active_filename), active_filename)
         ELSE Resolved("turn", "", TRUE, create_chat_history(now), None)

\* the input file is used without strip()
C10_AcquirePromptUnstripped(p, inp) ==
    IF ~Truthy(p) /\ inp.exists THEN inp.text ELSE p

\* chat(), lines 210-213: the prompt argument, else the stripped input file
AcquirePrompt(p, inp) ==
    IF ~Truthy(p) /\ inp.exists THEN strip(inp.text) ELSE p

\* an exception leaves chat() before anything was written
Abort(r, exception) ==
    /\ result' = exception
    /\ chat_data' = r.data
    /\ filename' = r.filename
    /\ pc' = "exit"
    /\ UNCHANGED <<history, output>>

\* the pointer is written before the file is looked up
C8_LoadBranchPointsFirst(r) ==
    /\ prompt' = args'.prompt
    /\ UNCHANGED <<clock, base>>
    /\ history' = set_active_chat(history, args'.load_file)
    /\ chat_data' = r.data
    /\ filename' = r.filename
    /\ pc' = "exit"
    /\ IF r.raised # ""
       THEN /\ result' = r.raised
            /\ UNCHANGED <<output, loaded>>
       ELSE LET view == update_output_md(r.data)
            IN /\ output' = view.file
               /\ result' = IF view.raised THEN "KeyError" ELSE "ok"
               /\ loaded' = IF view.raised THEN NoLoad
                          ELSE [file |-> r.filename,
                                before |-> get_active_chat(history)]

\* the loaded transcript is rendered but the pointer is left as it was
C13_LoadBranchKeepsPointer(r) ==
    /\ prompt' = args'.prompt
    /\ UNCHANGED <<clock, base>>
    /\ IF r.raised # ""
       THEN /\ Abort(r, r.raised)
            /\ UNCHANGED loaded
       ELSE LET view == update_output_md(r.data)
            IN /\ chat_data' = r.data
               /\ filename' = r.filename
               /\ history' = history
               /\ output' = view.file
               /\ result' = IF view.raised THEN "KeyError" ELSE "ok"
               /\ loaded' = IF view.raised THEN NoLoad
                          ELSE [file |-> r.filename,
                                before |-> get_active_chat(history)]
               /\ pc' = "exit"
\* chat(), lines 182-187: the load branch
LoadBranch(r) ==
    /\ prompt' = args'.prompt
    /\ UNCHANGED <<clock, base>>
    /\ IF r.raised # ""
       THEN /\ Abort(r, r.raised)
            /\ UNCHANGED loaded
       ELSE LET view == update_output_md(r.data)
            IN /\ chat_data' = r.data
               /\ filename' = r.filename
               /\ history' = set_active_chat(history, r.filename)
               /\ output' = view.file
               /\ result' = IF view.raised THEN "KeyError" ELSE "ok"
               /\ loaded' = IF view.raised THEN NoLoad
                          ELSE [file |-> r.filename,
                                before |-> get_active_chat(history)]
               /\ pc' = "exit"

\* TurnBranch with the transcript saved as soon as the user message is
\* appended
C11_TurnBranchSavesUserMessage(r, p) ==
    LET text == AcquirePrompt(p, input)
    IN /\ clock' = IF r.fresh THEN clock + 1 ELSE clock
       /\ base' = r.data
       /\ UNCHANGED loaded
       /\ IF r.raised # ""
          THEN /\ prompt' = p
               /\ Abort(r, r.raised)
          ELSE IF ~Truthy(text)
          THEN /\ prompt' = text
               /\ Abort(r, "ValueError")
          ELSE IF "messages" \notin DOMAIN r.data
          THEN /\ prompt' = text
               /\ Abort(r, "KeyError")
          ELSE /\ prompt' = text
               /\ result' = "running"
               /\ chat_data' = [r.data EXCEPT
                                  !["messages"] = Append(@, Message("user", text))]
               /\ filename' = r.filename
               /\ pc' = "send"
               /\ history' = save_chat_history(history, chat_data', r.filename).history
               /\ UNCHANGED output
\* chat(), lines 189-222: the session is resolved, the prompt acquired and
\* the user message appended to chat_data
TurnBranch(r, p) ==
    LET text == AcquirePrompt(p, input)
    IN /\ clock' = IF r.fresh THEN clock + 1 ELSE clock
       /\ base' = r.data
       /\ UNCHANGED loaded
       /\ IF r.raised # ""
          THEN /\ prompt' = p
               /\ Abort(r, r.raised)
          ELSE IF ~Truthy(text)
          THEN /\ prompt' = text
               /\ Abort(r, "ValueError")
          ELSE IF "messages" \notin DOMAIN r.data
          THEN /\ prompt' = text
               /\ Abort(r, "KeyError")
          ELSE /\ prompt' = text
               /\ result' = "running"
               /\ chat_data' = [r.data EXCEPT
                                  !["messages"] = Append(@, Message("user", text))]
               /\ filename' = r.filename
               /\ pc' = "send"
               /\ UNCHANGED <<history, output>>

\* one run of the program: main() calls chat(prompt, new_chat, load_file)
Invoke(p, n, l) ==
    /\ pc = "idle"
    /\ invocations < Budget
    /\ invocations' = invocations + 1
    /\ args' = [prompt |-> p, new_chat |-> n, load_file |-> l]
    /\ turns' = 0
    /\ usageSum' = ZeroUsage
    /\ response' = EmptyDict
    /\ UNCHANGED <<input, STREAMING, posts, payload, lines>>
    /\ LET r == Resolve(history, n, l, clock)
       IN /\ pre' = Snapshot(r.fresh)
          /\ IF r.branch = "load" THEN LoadBranch(r) ELSE TurnBranch(r, p)

\* chat_data, holding the user message, is saved although the request failed
C4_RequestFailsAfterSave ==
    /\ pc = "send"
    /\ posts' = posts + 1
    /\ result' = "RuntimeError"
    /\ pc' = "exit"
    /\ history' = save_chat_history(history, chat_data, filename).history
    /\ payload' = chat_data["messages"]
    /\ UNCHANGED <<input, output, STREAMING, clock, args, prompt,
                   chat_data, filename, response, lines, base, pre,
                   invocations, turns, usageSum, loaded>>

\* send_message, lines 101-109 and 114-115: requests.post or
\* raise_for_status raises a RequestException
RequestFails ==
    /\ pc = "send"
    /\ posts' = posts + 1
    /\ result' = "RuntimeError"
    /\ pc' = "exit"
    /\ payload' = chat_data["messages"]
    /\ UNCHANGED <<history, input, output, STREAMING, clock, args, prompt,
                   chat_data, filename, response, lines, base, pre,
                   invocations, turns, usageSum, loaded>>

\* send_message, lines 112 and 114-115: iter_lines raises a
\* RequestException while _handle_stream consumes the stream; the locals of
\* _handle_stream are lost with it, and response is never assigned
StreamFails ==
    /\ pc = "send"
    /\ STREAMING
    /\ posts' = posts + 1
    /\ response' = [raised |-> "RequestException"]
    /\ result' = "RuntimeError"
    /\ pc' = "exit"
    /\ payload' = chat_data["messages"]
    /\ UNCHANGED <<history, input, output, STREAMING, clock, args, prompt,
                   chat_data, filename, lines, base, pre,
                   invocations, turns, usageSum, loaded>>

\* chat(), lines 226-244, with the response resp of send_message
Exchange(resp) ==
    /\ posts' = posts + 1
    /\ response' = resp
    /\ chat_data' = ApplyResponse(chat_data, resp, clock)
    /\ clock' = clock + 1
    /\ pc' = "save"
    /\ payload' = chat_data["messages"]
    /\ UNCHANGED <<history, input, output, STREAMING, args, prompt, filename,
                   result, lines, base, pre, invocations, turns, usageSum,
                   loaded>>

\* send_message, line 113: the batched response body
ReceiveBatched(r) ==
    /\ pc = "send"
    /\ ~STREAMING
    /\ Exchange(r)

\* send_message, line 112: the streamed response
ReceiveStream ==
    /\ pc = "send"
    /\ STREAMING
    /\ Exchange(handle_stream(lines))

\* the active pointer is written where the transcript should be
C16_SaveChatPointsFirst ==
    /\ pc = "save"
    /\ LET saved == save_chat_history(history, chat_data, filename)
       IN /\ history' = set_active_chat(history, saved.filename)
          /\ filename' = saved.filename
    /\ pc' = "set_active"
    /\ UNCHANGED <<input, output, STREAMING, clock, args, prompt, chat_data,
                   response, result, posts, payload, lines, base, pre,
                   invocations, turns, usageSum, loaded>>
\* chat(), lines 246-252
SaveChat ==
    /\ pc = "save"
    /\ LET saved == save_chat_history(history, chat_data, filename)
       IN /\ history' = saved.history
          /\ filename' = saved.filename
    /\ pc' = "set_active"
    /\ UNCHANGED <<input, output, STREAMING, clock, args, prompt, chat_data,
                   response, result, posts, payload, lines, base, pre,
                   invocations, turns, usageSum, loaded>>

\* chat(), line 255
SetActive ==
    /\ pc = "set_active"
    /\ history' = set_active_chat(history, filename)
    /\ pc' = "render"
    /\ UNCHANGED <<input, output, STREAMING, clock, args, prompt, chat_data,
                   filename, response, result, posts, payload, lines, base,
                   pre, invocations, turns, usageSum, loaded>>

\* chat(), lines 258-267: the view is written and chat() returns
UpdateOutput ==
    /\ pc = "render"
    /\ output' = update_output_md(chat_data).file
    /\ result' = "ok"
    /\ pc' = "exit"
    /\ turns' = IF pre.fresh THEN 1
                ELSE IF pre.turns >= 1 THEN pre.turns + 1 ELSE 0
    /\ usageSum' = IF pre.fresh THEN response["usage"]
                   ELSE IF pre.turns >= 1
                        THEN SumUsage(pre.usageSum, response["usage"])
                        ELSE ZeroUsage
    /\ loaded' = NoLoad
    /\ UNCHANGED <<history, input, STREAMING, clock, args, prompt, chat_data,
                   filename, response, posts, payload, lines, base, pre,
                   invocations>>

\* main(), lines 318-327: the process exits and its locals are gone
Exit ==
    /\ pc = "exit"
    /\ pc' = "idle"
    /\ args' = NoArgs
    /\ prompt' = None
    /\ chat_data' = EmptyDict
    /\ filename' = None
    /\ response' = EmptyDict
    /\ result' = "ok"
    /\ posts' = 0
    /\ payload' = <<>>
    /\ base' = EmptyDict
    /\ pre' = NoSnapshot
    /\ UNCHANGED <<history, input, output, STREAMING, clock, lines,
                   invocations, turns, usageSum, loaded>>

\* the user writes input.txt between two runs
WriteInput(text) ==
    /\ pc = "idle"
    /\ input # [exists |-> TRUE, text |-> text]
    /\ input' = [exists |-> TRUE, text |-> text]
    /\ UNCHANGED <<history, output, STREAMING, clock, pc, args, prompt,
                   chat_data, filename, response, result, posts, payload,
                   lines, base, pre, invocations, turns, usageSum, loaded>>

\* something outside the program deletes a file of the history directory
\* between two runs
ExternalDelete(name) ==
    /\ pc = "idle"
    /\ name \in DOMAIN history
    /\ history' = [f \in DOMAIN history \ {name} |-> history[f]]
    /\ turns' = 0
    /\ usageSum' = ZeroUsage
    /\ loaded' = NoLoad
    /\ UNCHANGED <<input, output, STREAMING, clock, pc, args, prompt,
                   chat_data, filename, response, result, posts, payload,
                   lines, base, pre, invocations>>

Run == \E p \in PromptArgs, n \in BOOLEAN, l \in LoadNames : Invoke(p, n, l)
Fail == RequestFails \/ StreamFails
Receive == (\E r \in Replies : ReceiveBatched(r))
           \/ ReceiveStream
Persist == SaveChat \/ SetActive \/ UpdateOutput
Edit == \E text \in InputTexts : WriteInput(text)
Delete == \E name \in DOMAIN history : ExternalDelete(name)

Next == Run \/ Fail \/ Receive \/ Persist \/ Exit \/ Edit

\* the program and the user's input file only
Spec == Init /\ [][Next]_vars

\* the program in a history directory whose files may also be deleted from
\* outside
NextEnv == Next \/ Delete
SpecEnv == Init /\ [][NextEnv]_vars

\* ------------------------------------------------------------ properties
UsageKeys == {"prompt_tokens", "completion_tokens", "total_tokens"}
SameUsage(a, b) == \A k \in UsageKeys : a[k] = b[k]
IsTranscript(value) == TranscriptKeys \subseteq DOMAIN value
\* the transcript files of a directory: every file but the active pointer
TranscriptFiles(dir) ==
    [f \in DOMAIN dir \ {ACTIVE_CHAT_FILE} |-> dir[f]]
Finished == pc = "exit"
Succeeded == pc = "exit" /\ result = "ok"
IsLoad == Truthy(args.load_file)
\* the content and usage the exchange returned to chat()
ReplyContent == response["choices"][1]["message"]["content"]

\* C1: after a session was created by one successful new-session exchange
\* and continued by N-1 successful bare invocations with nothing in
\* between (turns = N), the transcript the active pointer names holds
\* exactly 2N messages and each usage counter equals the sum of that field
\* over the N usage records the API returned.
C1_ChainOfTurns ==
    turns >= 1 =>
        LET f == get_active_chat(history) IN
        /\ Truthy(f)
        /\ FileExists(history, f)
        /\ IsTranscript(history[f])
        /\ Len(history[f]["messages"]) = 2 * turns
        /\ SameUsage(history[f]["usage"], usageSum)

C1_Witness ==
    /\ Finished
    /\ turns = 3
    /\ usageSum["prompt_tokens"] = 7
    /\ usageSum["total_tokens"] = 12

\* C2: a successful invocation with new=true and a non-empty prompt,
\* whatever the history directory and the pointer held before, writes a
\* transcript whose messages are exactly [user: the prompt, assistant: the
\* reply] and whose usage is the usage of that one exchange.
C2_NewSessionTranscript ==
    (Succeeded /\ ~IsLoad /\ args.new_chat /\ Truthy(args.prompt)) =>
        /\ FileExists(history, filename)
        /\ history[filename]["messages"]
             = <<Message("user", args.prompt), Message("assistant", ReplyContent)>>
        /\ SameUsage(history[filename]["usage"], response["usage"])

C2_Witness ==
    /\ Succeeded /\ ~IsLoad /\ args.new_chat /\ Truthy(args.prompt)
    /\ Truthy(get_active_chat(pre.history))
    /\ FileExists(pre.history, get_active_chat(pre.history))
    /\ Len(pre.history[get_active_chat(pre.history)]["messages"]) >= 2

\* C3: a successful load of an existing transcript file F leaves every
\* transcript file unchanged, F included, and afterwards the active pointer
\* names F whatever it named before and whether or not it existed.
C3_LoadKeepsTranscripts ==
    (Succeeded /\ IsLoad) =>
        /\ TranscriptFiles(history) = TranscriptFiles(pre.history)
        /\ FileExists(history, args.load_file)
        /\ history[args.load_file] = pre.history[args.load_file]
        /\ FileExists(history, ACTIVE_CHAT_FILE)
        /\ get_active_chat(history) = args.load_file

C3_Witness ==
    /\ Succeeded /\ IsLoad
    /\ ~FileExists(pre.history, ACTIVE_CHAT_FILE)
    /\ Len(history[args.load_file]["messages"]) >= 2

\* C4: a transport failure during the exchange, batched or streamed, leaves
\* every transcript file and the active-pointer file as they were before
\* the invocation; nothing of the failed exchange is written.
C4_FailureWritesNothing ==
    (Finished /\ result = "RuntimeError") => history = pre.history

C4_Witness ==
    /\ Finished /\ result = "RuntimeError"
    /\ filename # None
    /\ FileExists(pre.history, filename)
    /\ Len(chat_data["messages"]) = 3

\* C5: when the active pointer exists but names a file that does not exist,
\* an invocation with new=false, no load and a non-empty prompt does not
\* fail in resolution: it proceeds with a fresh empty transcript, and on a
\* successful exchange writes a new 2-message transcript file and points
\* the active pointer at it.
StalePointer(dir) ==
    /\ FileExists(dir, ACTIVE_CHAT_FILE)
    /\ Truthy(get_active_chat(dir))
    /\ ~FileExists(dir, get_active_chat(dir))
C5_Case ==
    /\ pc # "idle"
    /\ StalePointer(pre.history)
    /\ ~IsLoad /\ ~args.new_chat /\ Truthy(args.prompt)
C5_StalePointerFallsBack ==
    C5_Case =>
        /\ result \in {"running", "ok", "RuntimeError"}
        /\ base = [base EXCEPT !["messages"] = <<>>, !["usage"] = ZeroUsage]
        /\ IsTranscript(base)
        /\ pc = "send" => filename = None
        /\ Succeeded =>
             /\ filename \notin DOMAIN pre.history
             /\ FileExists(history, filename)
             /\ Len(history[filename]["messages"]) = 2
             /\ get_active_chat(history) = filename

C5_Witness == C5_Case /\ Succeeded

\* C6: the streaming path and the batched path yield the same transcript.
\* A stream serves the reply r when its content fragments concatenate to
\* r's content, the usage object it carries is r's usage, and no data chunk
\* follows a sentinel; a batched response serves r when its body is r.
\* Either way chat() appends the assistant message r.content and adds
\* r.usage.
FragmentOf(line) ==
    IF /\ line.kind = "chunk"
       /\ "choices" \in DOMAIN line.chunk
       /\ Len(line.chunk["choices"]) >= 1
       /\ "delta" \in DOMAIN line.chunk["choices"][1]
       /\ "content" \in DOMAIN line.chunk["choices"][1]["delta"]
    THEN line.chunk["choices"][1]["delta"]["content"]
    ELSE <<>>
RECURSIVE Fragments(_)
Fragments(ls) ==
    IF ls = <<>> THEN <<>> ELSE FragmentOf(Head(ls)) \o Fragments(Tail(ls))
CarriedUsages(ls) ==
    {ls[i].chunk["usage"] :
       i \in {j \in 1..Len(ls) : ls[j].kind = "chunk" /\ "usage" \in DOMAIN ls[j].chunk}}
NoChunkAfterSentinel(ls) ==
    \A i \in 1..Len(ls) : \A j \in 1..Len(ls) :
        (i < j /\ ls[i].kind = "done") => ls[j].kind # "chunk"
Encodes(ls, r) ==
    /\ Fragments(ls) = r["choices"][1]["message"]["content"]
    /\ CarriedUsages(ls) = {r["usage"]}
    /\ NoChunkAfterSentinel(ls)
Served(r) == IF STREAMING THEN Encodes(lines, r) ELSE response = r
ServableReplies ==
    {Reply(c, u) : c \in SeqsUpTo({"x", "y"}, MaxLines), u \in Usages}
Exchanged ==
    /\ ~IsLoad
    /\ pc \in {"save", "set_active", "render"} \/ Succeeded

C6_StreamedEqualsBatched ==
    Exchanged =>
        \A r \in ServableReplies :
          Served(r) =>
            /\ chat_data["messages"]
                 = base["messages"]
                   \o <<Message("user", prompt),
                        Message("assistant", r["choices"][1]["message"]["content"])>>
            /\ SameUsage(chat_data["usage"], SumUsage(base["usage"], r["usage"]))

C6_Witness ==
    /\ STREAMING
    /\ pc = "save"
    /\ lines = <<Fragment(<<"x">>), FragmentWithUsage(<<"y">>, U1)>>
    /\ Served(Reply(<<"x", "y">>, U1))

\* C7: in every state reached by new, continue and load invocations alone,
\* whenever the active-pointer file is present the transcript file it names
\* exists.
C7_PointerNamesTranscript ==
    FileExists(history, ACTIVE_CHAT_FILE) =>
        LET f == get_active_chat(history) IN
        /\ Truthy(f)
        /\ f # ACTIVE_CHAT_FILE
        /\ FileExists(history, f)
        /\ IsTranscript(history[f])

\* C8: a load of a filename that does not exist in the history directory
\* fails with a not-found error and leaves the active pointer, every
\* transcript file and the rendered view unchanged, with no API request.
C8_Case == Finished /\ IsLoad /\ ~FileExists(pre.history, args.load_file)
C8_MissingLoadChangesNothing ==
    C8_Case =>
        /\ result = "FileNotFoundError"
        /\ history = pre.history
        /\ output = pre.output
        /\ posts = 0

C8_Witness ==
    /\ C8_Case
    /\ Truthy(get_active_chat(pre.history))
    /\ pre.output.exists

\* C9: resolution is first-match-wins in the order load, new, continue:
\* with load given together with new=true and/or a non-empty prompt the
\* invocation is a pure load; no fresh transcript is created, the prompt is
\* appended nowhere and no API request is sent.
C9_Case == pc # "idle" /\ IsLoad /\ (args.new_chat \/ Truthy(args.prompt))
C9_LoadWins ==
    C9_Case =>
        /\ Finished
        /\ posts = 0
        /\ response = EmptyDict
        /\ clock = pre.clock
        /\ TranscriptFiles(history) = TranscriptFiles(pre.history)
        /\ IF FileExists(pre.history, args.load_file)
           THEN /\ chat_data = pre.history[args.load_file]
                /\ filename = args.load_file
                /\ get_active_chat(history) = args.load_file
                /\ result \in {"ok", "KeyError"}
           ELSE /\ chat_data = EmptyDict
                /\ history = pre.history
                /\ output = pre.output
                /\ result = "FileNotFoundError"

C9_Witness ==
    /\ C9_Case
    /\ args.new_chat /\ Truthy(args.prompt)
    /\ result = "ok"
    /\ Len(chat_data["messages"]) >= 2

\* C10: on the new and continue paths, an empty prompt argument with the
\* input file absent or empty after trimming fails with the empty-prompt
\* error before any API request, with every file of the history directory
\* and the rendered view unchanged; a non-empty prompt argument is used as
\* it is, the input file not consulted.
AllWhitespace(text) == \A i \in 1..Len(text) : text[i] \in Whitespace
C10_Case == pc # "idle" /\ ~IsLoad
C10_EmptyPrompt ==
    C10_Case =>
        /\ (~Truthy(args.prompt) /\ (~input.exists \/ AllWhitespace(input.text))) =>
             /\ Finished
             /\ result = "ValueError"
             /\ posts = 0
             /\ history = pre.history
             /\ output = pre.output
        /\ Truthy(args.prompt) => prompt = args.prompt

C10_Witness ==
    /\ C10_Case /\ Finished
    /\ args.prompt = None
    /\ input.exists
    /\ result = "ValueError"
    /\ Truthy(get_active_chat(pre.history))


\* ---------------------------------------------------------------- C11 ----
\* an invocation on the new or continue path whose exchange has not (yet)
\* succeeded: the request is about to be sent, or it has failed
BeforeExchange ==
    /\ ~IsLoad
    /\ "messages" \in DOMAIN base
    /\ pc = "send" \/ (Finished /\ result = "RuntimeError")
\* the new user message is the last message of the transcript in memory
HoldsUserMessage ==
    /\ Len(chat_data["messages"]) = Len(base["messages"]) + 1
    /\ chat_data["messages"][Len(chat_data["messages"])] = Message("user", prompt)

\* C11 as stated: at no point of chat() does the transcript hold the new
\* user message while the exchange has not yet succeeded.
C11_NoUserMessageBeforeSuccess == BeforeExchange => ~HoldsUserMessage

\* C11, amended: while the exchange has not succeeded the transcript in
\* memory is the resolved one with the user message alone appended (usage
\* and last_updated_at untouched, no assistant message), and no file of the
\* history directory and no rendered view has been written, so no persisted
\* transcript holds the new user message; once the exchange has succeeded
\* the assistant message, the usage and last_updated_at are all applied.
C11_NoPersistedPartialUpdate ==
    /\ BeforeExchange =>
         /\ chat_data = [base EXCEPT !["messages"] = Append(@, Message("user", prompt))]
         /\ history = pre.history
         /\ output = pre.output
    /\ (~IsLoad /\ pc \in {"save", "set_active", "render"}) =>
         /\ chat_data["messages"] =
              base["messages"] \o <<Message("user", prompt),
                                    Message("assistant", ReplyContent)>>
         /\ SameUsage(chat_data["usage"], SumUsage(base["usage"], response["usage"]))
         /\ chat_data["last_updated_at"] = isoformat(clock - 1)

C11_Witness ==
    /\ BeforeExchange
    /\ pc = "send"
    /\ HoldsUserMessage
    /\ Len(base["messages"]) >= 2
    /\ filename \in DOMAIN history
    /\ Len(history[filename]["messages"]) = Len(base["messages"])


\* ---------------------------------------------------------------- C12 ----
\* the file name the claim derives from a creation timestamp: every ':'
\* dropped, every '.' turned into '-', ".json" appended
NotColon(c) == c # ":"
DerivedName(created_at) ==
    LET kept == SelectSeq(created_at, NotColon)
    IN [i \in 1..Len(kept) |-> IF kept[i] = "." THEN "-" ELSE kept[i]]
       \o <<".json">>
\* a turn that continues the session the pointer named at its start
Continues ==
    /\ ~args.new_chat
    /\ Truthy(get_active_chat(pre.history))
    /\ FileExists(pre.history, get_active_chat(pre.history))
C12_Case == Succeeded /\ ~IsLoad

\* C12: after every successful turn the active pointer names the file the
\* transcript was just written to; for a continued session that is the file
\* it was loaded from, no file is added and created_at is unchanged; for a
\* fresh session it is the name derived from created_at (':' removed, '.'
\* replaced by '-', ".json" appended).
C12_PointerNamesWrittenFile ==
    C12_Case =>
        /\ get_active_chat(history) = filename
        /\ FileExists(history, filename)
        /\ history[filename] = chat_data
        /\ IF Continues
           THEN /\ filename = get_active_chat(pre.history)
                /\ DOMAIN history = DOMAIN pre.history
                /\ history[filename]["created_at"] =
                     pre.history[filename]["created_at"]
           ELSE /\ filename = DerivedName(chat_data["created_at"])
                /\ DOMAIN history =
                     DOMAIN pre.history \cup {filename, ACTIVE_CHAT_FILE}

C12_Witness ==
    /\ C12_Case
    /\ ~Continues
    /\ \E i \in 1..Len(chat_data["created_at"]) : chat_data["created_at"][i] = "."
    /\ filename \notin DOMAIN pre.history
    /\ DOMAIN TranscriptFiles(pre.history) # {}


\* ---------------------------------------------------------------- C13 ----
\* a bare invocation (no new flag, no load file) that follows a successful
\* load of pre.loaded.file, with no successful turn and no deletion between
C13_Case ==
    /\ pc # "idle"
    /\ ~IsLoad
    /\ ~args.new_chat
    /\ pre.loaded.file # None
C13_Loaded == pre.history[pre.loaded.file]
C13_Exchange == <<Message("user", prompt), Message("assistant", ReplyContent)>>

\* C13: after a successful load of F the next successful bare invocation
\* continues F: the request carries F's messages followed by the new user
\* message, F gains exactly that user message and one assistant message
\* after its earlier messages, the pointer still names F, and no other
\* transcript file is changed, added or removed.
C13_LoadThenContinue ==
    C13_Case =>
        /\ posts = 1 =>
             payload = Append(C13_Loaded["messages"], Message("user", prompt))
        /\ Succeeded =>
             /\ filename = pre.loaded.file
             /\ get_active_chat(history) = pre.loaded.file
             /\ history[pre.loaded.file]["messages"] =
                  C13_Loaded["messages"] \o C13_Exchange
             /\ DOMAIN history = DOMAIN pre.history
             /\ \A f \in DOMAIN history \ {pre.loaded.file, ACTIVE_CHAT_FILE} :
                  history[f] = pre.history[f]

C13_Witness ==
    /\ C13_Case
    /\ Succeeded
    /\ pre.loaded.before # pre.loaded.file
    /\ Len(C13_Loaded["messages"]) >= 2


\* ---------------------------------------------------------------- C14 ----
C14_Case == pc # "idle" /\ ~IsLoad /\ args.new_chat

\* C14: a successful invocation with the new flag ignores the active
\* session: the request carries the new prompt as its only message, and the
\* transcript the pointer named before, like every other transcript that
\* existed, is still there with the content it had.
C14_NewIgnoresActive ==
    C14_Case =>
        /\ posts = 1 => payload = <<Message("user", prompt)>>
        /\ Succeeded =>
             \A f \in DOMAIN pre.history \ {ACTIVE_CHAT_FILE} :
                 /\ FileExists(history, f)
                 /\ history[f] = pre.history[f]

C14_Witness ==
    /\ C14_Case
    /\ Succeeded
    /\ FileExists(pre.history, get_active_chat(pre.history))
    /\ get_active_chat(pre.history) # ACTIVE_CHAT_FILE
    /\ Len(pre.history[get_active_chat(pre.history)]["messages"]) >= 2
    /\ get_active_chat(history) # get_active_chat(pre.history)


\* ---------------------------------------------------------------- C15 ----
\* the lines that arrive before the first [DONE] line: all of them when
\* there is none
Sentinels(ls) == {i \in 1..Len(ls) : ls[i].kind = "done"}
BeforeSentinel(ls) ==
    IF Sentinels(ls) = {} THEN ls
    ELSE SubSeq(ls, 1, (CHOOSE i \in Sentinels(ls) :
                          \A j \in Sentinels(ls) : i <= j) - 1)
C15_Case == STREAMING /\ Exchanged

\* C15: for every sequence of stream lines the content the streaming
\* consumer returns is the concatenation, in arrival order, of the content
\* fragments of the well-formed data chunks that arrive before the first
\* sentinel: lines after the sentinel and malformed chunks contribute
\* nothing, and a malformed chunk does not end the stream.
C15_ContentBeforeSentinel ==
    C15_Case => ReplyContent = Fragments(BeforeSentinel(lines))

C15_Witness ==
    /\ C15_Case
    /\ lines = <<Line("bad", EmptyDict), Fragment(<<"x">>)>>
    /\ ReplyContent = <<"x">>


\* ---------------------------------------------------------------- C19 ----
\* the positions of the data chunks that carry a non-empty usage record
UsageCarriers(ls) ==
    {i \in 1..Len(ls) : /\ ls[i].kind = "chunk"
                        /\ "usage" \in DOMAIN ls[i].chunk
                        /\ ls[i].chunk["usage"] # EmptyDict}
LastUsage(ls) ==
    IF UsageCarriers(ls) = {} THEN ZeroUsage
    ELSE ls[CHOOSE i \in UsageCarriers(ls) :
              \A j \in UsageCarriers(ls) : j <= i].chunk["usage"]
C19_Case == STREAMING /\ Exchanged

\* C19: the usage the streaming consumer returns is that of the last
\* well-formed chunk before the sentinel that carries a non-empty usage
\* record (a later record replaces an earlier one, they are not summed) and
\* all zeros when there is none: the exchange then still succeeds and the
\* cumulative counters of the transcript stay as they were.
C19_LastUsageWins ==
    C19_Case =>
        /\ SameUsage(response["usage"], LastUsage(BeforeSentinel(lines)))
        /\ UsageCarriers(BeforeSentinel(lines)) = {} =>
             /\ SameUsage(response["usage"], ZeroUsage)
             /\ SameUsage(chat_data["usage"], base["usage"])
             /\ Len(chat_data["messages"]) = Len(base["messages"]) + 2

C19_Witness ==
    /\ C19_Case
    /\ lines = <<UsageChunk(U1), UsageChunk(U2)>>
    /\ SameUsage(response["usage"], U2)
    /\ SameUsage(chat_data["usage"], U2)


\* ---------------------------------------------------------------- C20 ----
\* the stream of this invocation ended without a [DONE] line
C20_Case == STREAMING /\ ~IsLoad /\ Sentinels(lines) = {}
\* the response a stream made of the same lines and a final [DONE] yields
C20_Terminated == handle_stream(Append(lines, Line("done", EmptyDict)))

\* C20: a stream that ends without the sentinel is a completed exchange:
\* the consumer returns the content accumulated so far (possibly empty),
\* the same response as if the sentinel had followed, and chat() appends it
\* as the assistant message, writes the transcript and points the active
\* pointer at it.
C20_UnterminatedStreamCompletes ==
    C20_Case =>
        /\ Exchanged =>
             /\ ReplyContent = Fragments(lines)
             /\ response = C20_Terminated
             /\ chat_data["messages"] =
                  base["messages"] \o <<Message("user", prompt),
                                        Message("assistant", Fragments(lines))>>
        /\ Succeeded =>
             /\ FileExists(history, filename)
             /\ history[filename] = chat_data
             /\ get_active_chat(history) = filename

C20_Witness ==
    /\ C20_Case
    /\ Succeeded
    /\ lines = <<Fragment(<<"x">>), Fragment(<<"y">>)>>
    /\ history[filename]["messages"][2] = Message("assistant", <<"x", "y">>)


\* ---------------------------------------------------------------- C16 ----
\* an invocation on the new or continue path that got past the prompt
C16_Case == ~IsLoad /\ (pc \in {"send", "save", "set_active", "render"} \/ Succeeded)
C16_UserTurn == Append(base["messages"], Message("user", prompt))
C16_BothTurns == Append(C16_UserTurn, Message("assistant", ReplyContent))
\* the pointer file is as it was when the invocation started
C16_PointerUntouched ==
    /\ FileExists(history, ACTIVE_CHAT_FILE) = FileExists(pre.history, ACTIVE_CHAT_FILE)
    /\ FileExists(history, ACTIVE_CHAT_FILE) =>
         history[ACTIVE_CHAT_FILE] = pre.history[ACTIVE_CHAT_FILE]
\* the transcript file holds chat_data and no other transcript differs
C16_TranscriptWritten ==
    /\ FileExists(history, filename)
    /\ history[filename] = chat_data
    /\ \A f \in DOMAIN pre.history \ {filename, ACTIVE_CHAT_FILE} :
         FileExists(history, f) /\ history[f] = pre.history[f]

\* C16: within one successful new or continue invocation the steps happen
\* in this order, each once: the user turn is appended, the API is called
\* (one request), the assistant turn is appended, the transcript file is
\* written, then the active pointer, then the view is rendered; no file is
\* written before the API call has returned.
C16_StepsInOrder ==
    C16_Case =>
        /\ pc = "send" =>
             /\ posts = 0
             /\ chat_data["messages"] = C16_UserTurn
             /\ history = pre.history
             /\ output = pre.output
        /\ pc = "save" =>
             /\ posts = 1
             /\ payload = C16_UserTurn
             /\ chat_data["messages"] = C16_BothTurns
             /\ history = pre.history
             /\ output = pre.output
        /\ pc = "set_active" =>
             /\ posts = 1
             /\ chat_data["messages"] = C16_BothTurns
             /\ C16_TranscriptWritten
             /\ C16_PointerUntouched
             /\ output = pre.output
        /\ pc = "render" =>
             /\ posts = 1
             /\ chat_data["messages"] = C16_BothTurns
             /\ C16_TranscriptWritten
             /\ get_active_chat(history) = filename
             /\ output = pre.output
        /\ Succeeded =>
             /\ posts = 1
             /\ chat_data["messages"] = C16_BothTurns
             /\ C16_TranscriptWritten
             /\ get_active_chat(history) = filename
             /\ output = update_output_md(chat_data).file

C16_Witness ==
    /\ C16_Case
    /\ pc = "set_active"
    /\ filename \notin DOMAIN pre.history
    /\ Truthy(get_active_chat(history))
    /\ get_active_chat(history) # filename
    /\ output.exists


\* ---------------------------------------------------------------- C17 ----
\* the view has one section per message of the transcript, in order, after
\* the three header lines, and ends with the three usage counters
FullRendering(doc, transcript) ==
    LET n == Len(transcript["messages"])
    IN /\ Len(doc) = n + 5
       /\ \A i \in 1..n :
            /\ doc[i + 4].kind = capitalize(transcript["messages"][i]["role"])
            /\ doc[i + 4].text = transcript["messages"][i]["content"]
       /\ doc[n + 5].nums = <<transcript["usage"]["prompt_tokens"],
                              transcript["usage"]["completion_tokens"],
                              transcript["usage"]["total_tokens"]>>

\* C17: after every successful operation (turn or load) the rendered view
\* is the full rendering of the transcript the active pointer names, and a
\* failed operation leaves the rendered view unchanged.
C17_ViewFollowsPointer ==
    /\ Succeeded =>
         /\ output.exists
         /\ FileExists(history, get_active_chat(history))
         /\ FullRendering(output.doc, history[get_active_chat(history)])
    /\ (Finished /\ result # "ok") => output = pre.output


\* ---------------------------------------------------------------- C18 ----
\* user, assistant, user, assistant, ... with as many of each
Alternating(messages) ==
    /\ Len(messages) % 2 = 0
    /\ \A i \in 1..Len(messages) :
         messages[i]["role"] = IF i % 2 = 1 THEN "user" ELSE "assistant"

\* C18: every transcript file written by any sequence of invocations that
\* starts from an empty history directory holds an even number of messages
\* alternating user, assistant from the first; none ends with a user
\* message.
C18_TranscriptsAlternate ==
    \A f \in DOMAIN history \ {ACTIVE_CHAT_FILE} :
        /\ "messages" \in DOMAIN history[f]
        /\ Alternating(history[f]["messages"])

C18_Witness ==
    \E f \in DOMAIN history \ {ACTIVE_CHAT_FILE} :
        /\ Len(history[f]["messages"]) >= 4
        /\ pc = "set_active"
        /\ filename = f

====
